---- MODULE Spec2Model ----
(***************************************************************************)
(* A model of the Lox scanner in src/src/tokenizer.rs (struct Scanner) and *)
(* of the command-line program in src/src/main.rs.                         *)
(*                                                                         *)
(* A Rust String is a sequence of UTF-8 bytes; the scanner's cursors start *)
(* and current are byte offsets into it.  Bytes are modelled as integers   *)
(* 0..255 and a String as a sequence of bytes.  Text that is only printed  *)
(* (kind names, rendered lines, messages) is modelled as TLA+ strings.     *)
(***************************************************************************)
EXTENDS Integers, Sequences, FiniteSets, TLC

\* Longest input (in characters) the model scans.
MaxLen == 3
\* How many times scan_tokens may be called on the one Scanner instance.
MaxCalls == 2
\* Longest run of "=" characters among the inputs.
MaxRun == 6

(***************************************************************************)
(* Characters of the inputs, as Unicode code points.                       *)
(***************************************************************************)
\* ( ) { } , . - + ; *  : the arms of scan_token's match with no lookahead
PunctChars == {40, 41, 123, 125, 44, 46, 45, 43, 59, 42}
\* = ! < >  : the arms that look one character ahead
OperatorChars == {61, 33, 60, 62}
\* @ (one byte), newline (one byte), e-acute U+00E9 (two bytes in UTF-8)
OtherChars == {64, 10, 233}
Alphabet == PunctChars \cup OperatorChars \cup OtherChars

\* The spec's concrete scenario that is longer than MaxLen: (!@)
ScenarioInputs == {<<40, 33, 64, 41>>}

\* A run of n "=" characters.
EqualRun(n) == [i \in 1..n |-> 61]

\* The runs of up to MaxRun "=", alone and after one of "!", "<", ">".
RunInputs ==
    {EqualRun(n) : n \in 1..MaxRun}
        \cup {<<c>> \o EqualRun(m) : c \in {33, 60, 62}, m \in 1..(MaxRun - 1)}

\* All character sequences of length 0..MaxLen over the alphabet, the
\* scenario inputs and the runs.
Inputs ==
    UNION {[1..n -> Alphabet] : n \in 0..MaxLen}
        \cup ScenarioInputs \cup RunInputs

(***************************************************************************)
(* UTF-8, as the Rust standard library implements it for String / &str.    *)
(***************************************************************************)
\* char::encode_utf8 for code points below U+0800.
EncodeChar(c) ==
    IF c < 128 THEN <<c>>
    ELSE <<192 + (c \div 64), 128 + (c % 64)>>

RECURSIVE Utf8(_)
\* The bytes of the String holding the characters cs.
Utf8(cs) ==
    IF cs = <<>> THEN <<>> ELSE EncodeChar(Head(cs)) \o Utf8(Tail(cs))

RECURSIVE Chars(_)
\* str::chars: the code points of a valid UTF-8 byte string.
Chars(s) ==
    IF s = <<>> THEN <<>>
    ELSE IF s[1] < 128 THEN <<s[1]>> \o Chars(Tail(s))
    ELSE <<(s[1] - 192) * 64 + (s[2] - 128)>> \o Chars(Tail(Tail(s)))

\* str::is_char_boundary(i), i a 0-based byte offset: the start, the end, or
\* a byte that is not a continuation byte (0x80..0xBF).
IsCharBoundary(s, i) ==
    \/ i = 0
    \/ i = Len(s)
    \/ /\ i > 0
       /\ i < Len(s)
       /\ ~(s[i + 1] >= 128 /\ s[i + 1] < 192)

\* Whether s[a..b] is a valid slice of the str s. Indexing with an invalid
\* range panics; str::get returns None.
SliceOk(s, a, b) ==
    /\ a <= b
    /\ b <= Len(s)
    /\ IsCharBoundary(s, a)
    /\ IsCharBoundary(s, b)

\* The bytes s[a..b] (0-based, half open).
Slice(s, a, b) == SubSeq(s, a + 1, b)

(***************************************************************************)
(* enum TokenType and its Display.  A TokenType value is modelled as a     *)
(* record: tag is the variant's name, ch the String that UnknownToken      *)
(* carries (empty for the other variants).                                 *)
(***************************************************************************)
TokenTypes ==
    {"LeftParen", "RightParen", "LeftBrace", "RightBrace", "Comma", "Dot",
     "Minus", "Plus", "Semicolon", "Star", "Equal", "EqualEqual", "Bang",
     "BangEqual", "Less", "LessEqual", "Greater", "GreaterEqual", "Eof",
     "UnknownToken"}

TokenType(tag) == [tag |-> tag, ch |-> <<>>]

UnknownToken(ch) == [tag |-> "UnknownToken", ch |-> ch]

\* The printed form of one character of the alphabet.
CharStr(c) ==
    CASE c = 40 -> "("
      [] c = 41 -> ")"
      [] c = 123 -> "{"
      [] c = 125 -> "}"
      [] c = 44 -> ","
      [] c = 46 -> "."
      [] c = 45 -> "-"
      [] c = 43 -> "+"
      [] c = 59 -> ";"
      [] c = 42 -> "*"
      [] c = 61 -> "="
      [] c = 33 -> "!"
      [] c = 60 -> "<"
      [] c = 62 -> ">"
      [] c = 64 -> "@"
      [] c = 10 -> "\n"
      [] c = 233 -> "é"

RECURSIVE CharsStr(_)
CharsStr(cs) ==
    IF cs = <<>> THEN "" ELSE CharStr(Head(cs)) \o CharsStr(Tail(cs))

\* The printed form of a String (a valid UTF-8 byte sequence).
Str(s) == CharsStr(Chars(s))

\* The decimal form of a line number.
IntStr(n) ==
    CASE n = 1 -> "1"
      [] n = 2 -> "2"
      [] n = 3 -> "3"
      [] n = 4 -> "4"
      [] n = 5 -> "5"
      [] n = 6 -> "6"

\* impl Display for TokenType
TokenTypeDisplay(t) ==
    CASE t.tag = "LeftParen" -> "LEFT_PAREN"
      [] t.tag = "RightParen" -> "RIGHT_PAREN"
      [] t.tag = "LeftBrace" -> "LEFT_BRACE"
      [] t.tag = "RightBrace" -> "RIGHT_BRACE"
      [] t.tag = "Comma" -> "COMMA"
      [] t.tag = "Dot" -> "DOT"
      [] t.tag = "Minus" -> "MINUS"
      [] t.tag = "Plus" -> "PLUS"
      [] t.tag = "Semicolon" -> "SEMICOLON"
      [] t.tag = "Star" -> "STAR"
      [] t.tag = "Equal" -> "EQUAL"
      [] t.tag = "EqualEqual" -> "EQUAL_EQUAL"
      [] t.tag = "Bang" -> "BANG"
      [] t.tag = "BangEqual" -> "BANG_EQUAL"
      [] t.tag = "Less" -> "LESS"
      [] t.tag = "LessEqual" -> "LESS_EQUAL"
      [] t.tag = "Greater" -> "GREATER"
      [] t.tag = "GreaterEqual" -> "GREATER_EQUAL"
      [] t.tag = "Eof" -> "EOF"
      [] t.tag = "UnknownToken" -> "Unknown token " \o Str(t.ch)

(***************************************************************************)
(* struct Token, struct LoxError.  An Option<T> is modelled as a sequence  *)
(* of length 0 (None) or 1 (Some).                                         *)
(***************************************************************************)
None == <<>>

Some(v) == <<v>>

\* Token::new
TokenNew(token_type, lexeme, literal, ln) ==
    [token_type |-> token_type, lexeme |-> lexeme, literal |-> literal,
     line |-> ln]

\* LoxError::new
LoxErrorNew(ln, error) == [line |-> ln, message |-> error]

\* Mutant of TokenToString: an absent literal is printed as Option's Debug
\* form.
TokenToStringDebugLiteral(tok) ==
    IF tok.literal = None
    THEN TokenTypeDisplay(tok.token_type) \o " " \o Str(tok.lexeme) \o " None"
    ELSE TokenTypeDisplay(tok.token_type) \o " " \o Str(tok.lexeme) \o " "
             \o Str(tok.literal[1])

\* Token::to_string
TokenToString(tok) ==
    IF tok.literal = None
    THEN TokenTypeDisplay(tok.token_type) \o " " \o Str(tok.lexeme) \o " null"
    ELSE TokenTypeDisplay(tok.token_type) \o " " \o Str(tok.lexeme) \o " "
             \o Str(tok.literal[1])

(***************************************************************************)
(* struct Scanner.                                                         *)
(***************************************************************************)
VARIABLES
    source,        \* Scanner.source: the bytes of the input String
    tokens,        \* Scanner.tokens
    start,         \* Scanner.start
    current,       \* Scanner.current
    line,          \* Scanner.line
    errors,        \* Scanner.errors: Option<Vec<LoxError>>
    pc,            \* where the program is
    local_errors,  \* scan_tokens' local `errors` vector
    result,        \* scan_token's match result: Option<(TokenType, literal)>
    calls,         \* completed scan_tokens calls on this Scanner
    stdout,        \* lines written to the formatter / standard output
    stderr,        \* lines written to standard error
    exit_code,     \* Option<process exit code>
    file_contents  \* main's `file_contents`: Option<bytes>, None until read

vars ==
    <<source, tokens, start, current, line, errors, pc, local_errors, result,
      calls, stdout, stderr, exit_code, file_contents>>

scanner == <<tokens, start, current, line, errors>>

io == <<stdout, stderr, exit_code, file_contents>>

\* Mutant of Init: the line counter is not the instance's own, it starts at
\* whatever a counter shared by the whole process was left at.
InitSharedLine ==
    /\ source \in {Utf8(cs) : cs \in Inputs}
    /\ tokens = <<>>
    /\ start = 0
    /\ current = 0
    /\ line \in {1, 2}
    /\ errors = None
    /\ pc = "idle"
    /\ local_errors = <<>>
    /\ result = None
    /\ calls = 0
    /\ stdout = <<>>
    /\ stderr = <<>>
    /\ exit_code = None
    /\ file_contents = None

\* Scanner::new(source), before any method is called; nothing printed yet.
Init ==
    /\ source \in {Utf8(cs) : cs \in Inputs}
    /\ tokens = <<>>
    /\ start = 0
    /\ current = 0
    /\ line = 1
    /\ errors = None
    /\ pc = "idle"
    /\ local_errors = <<>>
    /\ result = None
    /\ calls = 0
    /\ stdout = <<>>
    /\ stderr = <<>>
    /\ exit_code = None
    /\ file_contents = None

\* Scanner::has_errors
has_errors == errors # None

\* Mutant of is_at_end: the comparison is off by one.
is_at_end_off_by_one == current > Len(source)

\* Scanner::is_at_end
is_at_end == current >= Len(source)

\* Scanner::current_char: &source[start..current]; callers check SliceOk
\* first, because indexing with an invalid range panics.
current_char == Slice(source, start, current)

\* Mutant of MatchesNext: reports the match without consuming the character.
MatchesNextNoConsume(src, cur, expected) ==
    IF cur >= Len(src)
    THEN [matched |-> FALSE, current |-> cur]
    ELSE IF ~SliceOk(src, cur, cur + 1)
    THEN [matched |-> FALSE, current |-> cur]
    ELSE [matched |-> Slice(src, cur, cur + 1) = expected, current |-> cur]

\* Mutant of MatchesNext: consumes the next character before comparing it.
MatchesNextAlwaysConsume(src, cur, expected) ==
    IF cur >= Len(src)
    THEN [matched |-> FALSE, current |-> cur]
    ELSE IF ~SliceOk(src, cur, cur + 1)
    THEN [matched |-> FALSE, current |-> cur]
    ELSE [matched |-> Slice(src, cur, cur + 1) = expected, current |-> cur + 1]

\* Scanner::matches_next(expected) at cursor cur: whether it matched, and the
\* cursor it leaves.
MatchesNext(src, cur, expected) ==
    IF cur >= Len(src)
    THEN [matched |-> FALSE, current |-> cur]
    ELSE IF ~SliceOk(src, cur, cur + 1)
    THEN [matched |-> FALSE, current |-> cur]
    ELSE IF Slice(src, cur, cur + 1) # expected
    THEN [matched |-> FALSE, current |-> cur]
    ELSE [matched |-> TRUE, current |-> cur + 1]

\* Mutant of SingleCharArm: the arms of ")" and "}" name the opening variants.
SingleCharArmCopied(ch) ==
    CASE ch = <<40>> -> "LeftParen"
      [] ch = <<41>> -> "LeftParen"
      [] ch = <<123>> -> "LeftBrace"
      [] ch = <<125>> -> "LeftBrace"
      [] ch = <<44>> -> "Comma"
      [] ch = <<46>> -> "Dot"
      [] ch = <<45>> -> "Minus"
      [] ch = <<43>> -> "Plus"
      [] ch = <<59>> -> "Semicolon"
      [] ch = <<42>> -> "Star"
      [] OTHER -> ""

\* The arm of scan_token's match that ch selects, for the arms that need no
\* lookahead: the variant's name, or "" when ch selects none of them.
SingleCharArm(ch) ==
    CASE ch = <<40>> -> "LeftParen"
      [] ch = <<41>> -> "RightParen"
      [] ch = <<123>> -> "LeftBrace"
      [] ch = <<125>> -> "RightBrace"
      [] ch = <<44>> -> "Comma"
      [] ch = <<46>> -> "Dot"
      [] ch = <<45>> -> "Minus"
      [] ch = <<43>> -> "Plus"
      [] ch = <<59>> -> "Semicolon"
      [] ch = <<42>> -> "Star"
      [] OTHER -> ""

\* The arms of scan_token's match that call matches_next("="): the variant
\* for a match (two) and for no match (one), or "" for the other arms.
OperatorArm(ch) ==
    CASE ch = <<61>> -> [two |-> "EqualEqual", one |-> "Equal"]
      [] ch = <<33>> -> [two |-> "BangEqual", one |-> "Bang"]
      [] ch = <<60>> -> [two |-> "LessEqual", one |-> "Less"]
      [] ch = <<62>> -> [two |-> "GreaterEqual", one |-> "Greater"]
      [] OTHER -> [two |-> "", one |-> ""]

\* scan_token's match on current_char() = ch with the cursor at cur: the
\* (TokenType, literal) it evaluates to and the cursor it leaves.
ScanTokenMatch(src, ch, cur) ==
    IF SingleCharArm(ch) # ""
    THEN [token_type |-> TokenType(SingleCharArm(ch)), literal |-> None,
          current |-> cur]
    ELSE IF OperatorArm(ch).two # ""
    THEN LET m == MatchesNext(src, cur, <<61>>)
         IN  [token_type |->
                  TokenType(IF m.matched THEN OperatorArm(ch).two
                            ELSE OperatorArm(ch).one),
              literal |-> None,
              current |-> m.current]
    ELSE [token_type |-> UnknownToken(ch), literal |-> None, current |-> cur]

\* Mutant of AddTokenValue: the lexeme is the first character of the match.
AddTokenValueFirstChar(src, st, cur, ln, token_type, literal) ==
    LET text == IF SliceOk(src, st, st + 1) THEN Slice(src, st, st + 1) ELSE <<>>
    IN  TokenNew(token_type, text, literal, ln)

\* The Token that add_token(token_type, literal) pushes.
AddTokenValue(src, st, cur, ln, token_type, literal) ==
    LET text == IF SliceOk(src, st, cur) THEN Slice(src, st, cur) ELSE <<>>
    IN  TokenNew(token_type, text, literal, ln)

\* The LoxError scan_tokens pushes for an UnknownToken(unknown_token).
UnexpectedCharacter(ln, unknown_token) ==
    LoxErrorNew(ln, "Unexpected character: " \o Str(unknown_token))

(***************************************************************************)
(* Scanner::scan_tokens, one step at a time.                               *)
(***************************************************************************)
\* A caller calls scan_tokens: `let mut errors = Vec::new()`.
ScanTokensCall ==
    /\ pc = "idle"
    /\ calls < MaxCalls
    /\ local_errors' = <<>>
    /\ pc' = "loop"
    /\ UNCHANGED <<source, scanner, result, calls, io>>

\* `while !self.is_at_end()`, and `self.start = self.current` on entry.
LoopTest ==
    /\ pc = "loop"
    /\ IF is_at_end
       THEN /\ pc' = "eof"
            /\ start' = start
       ELSE /\ pc' = "scan_token"
            /\ start' = current
    /\ UNCHANGED <<source, tokens, current, line, errors, local_errors,
                   result, calls, io>>

\* scan_token: `self.advance()`.
Advance ==
    /\ pc = "scan_token"
    /\ current' = current + 1
    /\ pc' = "match"
    /\ UNCHANGED <<source, tokens, start, line, errors, local_errors, result,
                   calls, io>>

\* scan_token: `match self.current_char() { ... }`, matches_next included.
\* current_char panics when start..current is no valid slice of source.
Match ==
    /\ pc = "match"
    /\ IF ~SliceOk(source, start, current)
       THEN /\ pc' = "panicked"
            /\ UNCHANGED <<current, result>>
       ELSE LET r == ScanTokenMatch(source, current_char, current)
            IN  /\ result' = Some([token_type |-> r.token_type,
                                   literal |-> r.literal])
                /\ current' = r.current
                /\ pc' = "dispatch"
    /\ UNCHANGED <<source, tokens, start, line, errors, local_errors, calls,
                   io>>

\* Mutant of Dispatch: the error is recorded and the UnknownToken is added to
\* the tokens all the same.
DispatchKeepsUnknown ==
    /\ pc = "dispatch"
    /\ LET token_type == result[1].token_type
           literal == result[1].literal
       IN  /\ local_errors' =
                  IF token_type.tag = "UnknownToken"
                  THEN Append(local_errors,
                              UnexpectedCharacter(line, token_type.ch))
                  ELSE local_errors
           /\ tokens' =
                  Append(tokens,
                         AddTokenValue(source, start, current, line,
                                       token_type, literal))
    /\ result' = None
    /\ pc' = "loop"
    /\ UNCHANGED <<source, start, current, line, errors, calls, io>>

\* scan_tokens: `if let TokenType::UnknownToken(..) = token_type { push the
\* error } else { self.add_token(token_type, literal) }`.
Dispatch ==
    /\ pc = "dispatch"
    /\ LET token_type == result[1].token_type
           literal == result[1].literal
       IN  IF token_type.tag = "UnknownToken"
           THEN /\ local_errors' =
                       Append(local_errors,
                              UnexpectedCharacter(line, token_type.ch))
                /\ tokens' = tokens
           ELSE /\ tokens' =
                       Append(tokens,
                              AddTokenValue(source, start, current, line,
                                            token_type, literal))
                /\ local_errors' = local_errors
    /\ result' = None
    /\ pc' = "loop"
    /\ UNCHANGED <<source, start, current, line, errors, calls, io>>

\* The Eof token scan_tokens pushes after the loop.
EofToken(ln) == TokenNew(TokenType("Eof"), <<>>, None, ln)

\* Mutant of StoreErrors: a call that records no error clears self.errors.
StoreErrorsReset(old, errs) == IF errs # <<>> THEN Some(errs) ELSE None

\* What scan_tokens leaves in self.errors.
StoreErrors(old, errs) == IF errs # <<>> THEN Some(errs) ELSE old

\* scan_tokens after the loop: push Eof, store the errors if there are any.
Finish ==
    /\ pc = "eof"
    /\ tokens' = Append(tokens, EofToken(line))
    /\ errors' = StoreErrors(errors, local_errors)
    /\ local_errors' = <<>>
    /\ calls' = calls + 1
    /\ pc' = "idle"
    /\ UNCHANGED <<source, start, current, line, result, io>>

(***************************************************************************)
(* impl Display for Scanner.                                               *)
(***************************************************************************)
\* The lines eprintln! writes: one per stored error.
ErrorLines(errs) ==
    IF errs = None THEN <<>>
    ELSE [i \in 1..Len(errs[1]) |->
             "[line " \o IntStr(errs[1][i].line) \o "] Error: "
                 \o errs[1][i].message]

\* The lines writeln! writes to the formatter: one per token.
TokenLines(toks) == [i \in 1..Len(toks) |-> TokenToString(toks[i])]

\* fmt on a Scanner no scan_tokens call is running on. stdout and stderr hold
\* what the latest call wrote.
Fmt ==
    /\ pc = "idle"
    /\ stderr' = ErrorLines(errors)
    /\ stdout' = TokenLines(tokens)
    /\ UNCHANGED <<source, scanner, pc, local_errors, result, calls,
                   exit_code, file_contents>>

(***************************************************************************)
(* src/src/main.rs: the command-line program.  It has its own TokenType    *)
(* and tokenize, and does not use the Scanner.                             *)
(***************************************************************************)
\* The argument vectors the model runs main with.
ArgVectors ==
    {<<"lox">>, <<"lox", "tokenize", "test.lox">>,
     <<"lox", "parse", "test.lox">>}

\* tokenize's match on one char of the content: main.rs's TokenType, with
\* the char Unknown carries.
MainTokenOf(c) ==
    CASE c = 40 -> [tag |-> "LeftParen", ch |-> <<>>]
      [] c = 41 -> [tag |-> "RightParen", ch |-> <<>>]
      [] c = 123 -> [tag |-> "LeftBrace", ch |-> <<>>]
      [] c = 125 -> [tag |-> "RightBrace", ch |-> <<>>]
      [] c = 44 -> [tag |-> "Comma", ch |-> <<>>]
      [] c = 46 -> [tag |-> "Dot", ch |-> <<>>]
      [] c = 45 -> [tag |-> "Minus", ch |-> <<>>]
      [] c = 43 -> [tag |-> "Plus", ch |-> <<>>]
      [] c = 59 -> [tag |-> "Semicolon", ch |-> <<>>]
      [] c = 42 -> [tag |-> "Star", ch |-> <<>>]
      [] OTHER -> [tag |-> "Unknown", ch |-> <<c>>]

\* main.rs tokenize(content): one TokenType per char.
MainTokenize(content) ==
    LET chars == Chars(content)
    IN  [i \in 1..Len(chars) |-> MainTokenOf(chars[i])]

\* The line main prints for one token.
MainTokenLine(t) ==
    CASE t.tag = "LeftParen" -> "LEFT_PAREN ( null"
      [] t.tag = "RightParen" -> "RIGHT_PAREN ) null"
      [] t.tag = "LeftBrace" -> "LEFT_BRACE { null"
      [] t.tag = "RightBrace" -> "RIGHT_BRACE } null"
      [] t.tag = "Comma" -> "COMMA , null"
      [] t.tag = "Dot" -> "DOT . null"
      [] t.tag = "Minus" -> "MINUS - null"
      [] t.tag = "Plus" -> "PLUS + null"
      [] t.tag = "Semicolon" -> "SEMICOLON ; null"
      [] t.tag = "Star" -> "STAR * null"
      [] t.tag = "Unknown" -> "Unknown Token " \o CharsStr(t.ch) \o " null"

\* What the "tokenize" arm of main prints for the file's contents.
MainTokenizeOutput(content) ==
    IF content # <<>>
    THEN LET toks == MainTokenize(content)
         IN  [i \in 1..Len(toks) |-> MainTokenLine(toks[i])] \o <<"EOF  null">>
    ELSE <<"EOF  null">>

\* The exit status of a main that returns: main never calls process::exit.
MainExitCode(content) == 0

\* fs::read_to_string(filename).unwrap_or_else(..): the contents read, or the
\* empty String after a line on stderr when the read fails.
ReadToString(filename, readable, bytes) ==
    IF readable
    THEN [contents |-> bytes, err |-> <<>>]
    ELSE [contents |-> <<>>, err |-> <<"Failed to read file " \o filename>>]

\* One run of the program, instead of any use of the Scanner. The file named
\* on the command line holds `source` (readable), or it is missing or is not
\* UTF-8 and the read fails.
Main ==
    /\ pc = "idle"
    /\ calls = 0
    /\ exit_code = None
    /\ stdout = <<>>
    /\ \E args \in ArgVectors :
          IF Len(args) < 3
          THEN /\ stderr' = <<"Usage: " \o args[1] \o " tokenize <filename>">>
               /\ stdout' = <<>>
               /\ file_contents' = None
               /\ exit_code' = Some(MainExitCode(<<>>))
          ELSE IF args[2] = "tokenize"
          THEN \E readable \in BOOLEAN :
                  LET read == ReadToString(args[3], readable, source)
                  IN  /\ file_contents' = Some(read.contents)
                      /\ stderr' = read.err
                      /\ stdout' = MainTokenizeOutput(read.contents)
                      /\ exit_code' = Some(MainExitCode(read.contents))
          ELSE /\ stderr' = <<"Unknown command: " \o args[2]>>
               /\ stdout' = <<>>
               /\ file_contents' = None
               /\ exit_code' = Some(MainExitCode(<<>>))
    /\ pc' = "exited"
    /\ UNCHANGED <<source, scanner, local_errors, result, calls>>

Next ==
    \/ ScanTokensCall
    \/ LoopTest
    \/ Advance
    \/ Match
    \/ Dispatch
    \/ Finish
    \/ Fmt
    \/ Main

Spec == Init /\ [][Next]_vars

(***************************************************************************)
(* scan_tokens on a fresh Scanner as a function of the source: the loop of *)
(* LoopTest, Advance, Match and Dispatch, then Finish.                     *)
(***************************************************************************)
RECURSIVE ScanLoop(_, _, _, _, _)
ScanLoop(src, cur, toks, errs, ln) ==
    IF cur >= Len(src)
    THEN [tokens |-> Append(toks, EofToken(ln)),
          errors |-> StoreErrors(None, errs), panicked |-> FALSE]
    ELSE IF ~SliceOk(src, cur, cur + 1)
    THEN [tokens |-> toks, errors |-> None, panicked |-> TRUE]
    ELSE LET r == ScanTokenMatch(src, Slice(src, cur, cur + 1), cur + 1)
         IN  IF r.token_type.tag = "UnknownToken"
             THEN ScanLoop(src, r.current, toks,
                           Append(errs,
                                  UnexpectedCharacter(ln, r.token_type.ch)),
                           ln)
             ELSE ScanLoop(src, r.current,
                           Append(toks,
                                  AddTokenValue(src, cur, r.current, ln,
                                                r.token_type, r.literal)),
                           errs, ln)

ScanFresh(src) == ScanLoop(src, 0, <<>>, <<>>, 1)

(***************************************************************************)
(* Vocabulary of the properties.                                           *)
(***************************************************************************)
\* The first scan_tokens call on the Scanner has returned, no other began.
ScannedOnce == pc = "idle" /\ calls = 1

\* The scan_tokens call on the fresh Scanner is over: returned, or panicked.
ScanStopped == ScannedOnce \/ (pc = "panicked" /\ calls = 0)

\* The characters of the input.
InputChars == Chars(source)

\* The characters that start a token.
RecognizedChars == PunctChars \cup OperatorChars

\* The vector in self.errors, empty when it is None.
RecordedErrors == IF errors = None THEN <<>> ELSE errors[1]

\* The function agrees with the step-by-step scan.
ScanFreshAgrees ==
    /\ ScannedOnce =>
          /\ ~ScanFresh(source).panicked
          /\ tokens = ScanFresh(source).tokens
          /\ errors = ScanFresh(source).errors
    /\ pc = "panicked" /\ calls = 0 => ScanFresh(source).panicked

(***************************************************************************)
(* C1.  After one scan_tokens call on a fresh Scanner, whatever the input  *)
(* (the empty string included), the token sequence holds exactly one Eof   *)
(* token, it is the last element, and its lexeme is empty.                 *)
(***************************************************************************)
C1_ExactlyOneEofLast ==
    ScanStopped =>
        /\ Len(tokens) >= 1
        /\ tokens[Len(tokens)].token_type.tag = "Eof"
        /\ tokens[Len(tokens)].lexeme = <<>>
        /\ \A i \in 1..(Len(tokens) - 1) : tokens[i].token_type.tag # "Eof"

\* What the code does: a call that returns leaves exactly one Eof, last and
\* with empty lexeme; a call that panics leaves no Eof at all.
C1_ReturnedCalls ==
    /\ ScannedOnce =>
          /\ Len(tokens) >= 1
          /\ tokens[Len(tokens)].token_type.tag = "Eof"
          /\ tokens[Len(tokens)].lexeme = <<>>
          /\ \A i \in 1..(Len(tokens) - 1) : tokens[i].token_type.tag # "Eof"
    /\ pc = "panicked" /\ calls = 0 =>
          \A i \in 1..Len(tokens) : tokens[i].token_type.tag # "Eof"

\* The call returns on every input of one-byte characters.
C1_SingleByteInputs ==
    (\A i \in 1..Len(InputChars) : InputChars[i] < 128) => pc # "panicked"

\* A scan of a non-empty input that produced tokens and errors has returned.
C1_Witness ==
    /\ ScannedOnce
    /\ Len(source) = MaxLen
    /\ Len(tokens) >= 2
    /\ errors # None

\* The scan of "(" then a two-byte character has stopped without an Eof.
C1_PanickedWithoutEof ==
    /\ pc = "panicked"
    /\ source = <<40, 195, 169>>
    /\ Len(tokens) = 1
    /\ tokens[1].token_type.tag = "LeftParen"

\* The empty string: the loop body never runs and only Eof is there.
C1_EmptyInput == ScannedOnce /\ source = <<>> => Len(tokens) = 1

(***************************************************************************)
(* C2.  For any character outside the recognized set, anywhere in the      *)
(* input, scan_tokens emits no token for it (no UnknownToken is ever in    *)
(* the token sequence), records exactly one error, with the message        *)
(* "Unexpected character: <that character>" and the current line, and the  *)
(* characters after it are scanned as they would be without it.            *)
(*                                                                         *)
(* Stated on the state the scan stops in, for every unrecognized character *)
(* u of an input pre.u.post: the recorded errors are those of pre, the one *)
(* for u, then those of post; the tokens are those of pre (less its Eof)   *)
(* followed by those of post.                                              *)
(***************************************************************************)
\* The error vector a fresh scan of the characters cs stores.
ErrorsOf(cs) ==
    LET r == ScanFresh(Utf8(cs))
    IN  IF r.errors = None THEN <<>> ELSE r.errors[1]

\* The tokens a fresh scan of the characters cs produces.
TokensOf(cs) == ScanFresh(Utf8(cs)).tokens

Front(seq) == SubSeq(seq, 1, Len(seq) - 1)

C2_AtPosition(i) ==
    LET cs == InputChars
        pre == SubSeq(cs, 1, i - 1)
        post == SubSeq(cs, i + 1, Len(cs))
        err == [line |-> line,
                message |-> "Unexpected character: " \o CharStr(cs[i])]
    IN  /\ RecordedErrors = ErrorsOf(pre) \o <<err>> \o ErrorsOf(post)
        /\ tokens = Front(TokensOf(pre)) \o TokensOf(post)

C2_UnrecognizedBecomesError ==
    ScanStopped =>
        /\ \A k \in 1..Len(tokens) : tokens[k].token_type.tag # "UnknownToken"
        /\ \A i \in 1..Len(InputChars) :
              InputChars[i] \notin RecognizedChars => C2_AtPosition(i)

\* The same statement on the inputs whose characters all take one byte.
C2_SingleByteInputs ==
    (\A i \in 1..Len(InputChars) : InputChars[i] < 128) =>
        C2_UnrecognizedBecomesError

(***************************************************************************)
(* C3.  scan_tokens never raises a fatal error (a panic) on a valid UTF-8  *)
(* input, characters of more than one byte included: every input leads to  *)
(* a completed scan.                                                       *)
(***************************************************************************)
C3_NeverPanics == pc # "panicked"

\* Where the panic comes from: exactly the inputs with a character of more
\* than one byte stop in a panic, at that character.
C3_PanicsOnlyOnMultiByte ==
    /\ pc = "panicked" =>
          /\ start < Len(source)
          /\ source[start + 1] >= 128
          /\ current = start + 1
    /\ ScannedOnce => \A i \in 1..Len(source) : source[i] < 128

(***************************************************************************)
(* C4.  Each of the inputs "==", "!=", "<=", ">=" scans to exactly one     *)
(* token of the combined kind (EqualEqual, BangEqual, LessEqual,           *)
(* GreaterEqual) whose lexeme is the two characters, followed by Eof, with *)
(* no errors.                                                              *)
(***************************************************************************)
C4_CombinedKind ==
    [c \in OperatorChars |->
        CASE c = 61 -> "EqualEqual"
          [] c = 33 -> "BangEqual"
          [] c = 60 -> "LessEqual"
          [] c = 62 -> "GreaterEqual"]

C4_TwoCharOperators ==
    \A c \in OperatorChars :
        source = <<c, 61>> =>
            /\ pc # "panicked"
            /\ ScannedOnce =>
                  /\ Len(tokens) = 2
                  /\ tokens[1].token_type = TokenType(C4_CombinedKind[c])
                  /\ tokens[1].lexeme = <<c, 61>>
                  /\ tokens[1].literal = None
                  /\ tokens[2].token_type = TokenType("Eof")
                  /\ tokens[2].lexeme = <<>>
                  /\ errors = None

\* The scan of "!=" has returned.
C4_Witness == ScannedOnce /\ source = <<33, 61>> /\ Len(tokens) = 2

(***************************************************************************)
(* C5.  When "=", "!", "<" or ">" is followed by a character other than    *)
(* "=", or by the end of the input, the scan yields the one-character kind *)
(* (Equal, Bang, Less, Greater) with a one-character lexeme, the lookahead *)
(* leaves the cursor where it was, and the next character is scanned as    *)
(* the start of a fresh lexeme at the next position.                       *)
(***************************************************************************)
C5_SingleKind ==
    [c \in OperatorChars |->
        CASE c = 61 -> "Equal"
          [] c = 33 -> "Bang"
          [] c = 60 -> "Less"
          [] c = 62 -> "Greater"]

\* The lexeme that begins at byte offset st is an operator character that no
\* "=" follows.
C5_MismatchAt(st) ==
    /\ st < Len(source)
    /\ source[st + 1] \in OperatorChars
    /\ (st + 1 < Len(source) => source[st + 2] # 61)

\* After the match: one-character kind, the cursor one past the start.
C5_AfterMatch ==
    pc = "dispatch" /\ C5_MismatchAt(start) =>
        /\ result[1].token_type = TokenType(C5_SingleKind[source[start + 1]])
        /\ current = start + 1

\* On the whole input op.rest with rest not starting with "=": the first
\* token is the one-character one, and the rest is scanned as it is alone.
C5_WholeInput ==
    ScanStopped /\ C5_MismatchAt(0) =>
        /\ Len(tokens) >= 1
        /\ tokens[1].token_type = TokenType(C5_SingleKind[source[1]])
        /\ tokens[1].lexeme = <<source[1]>>
        /\ Tail(tokens) = TokensOf(Tail(InputChars))
        /\ RecordedErrors = ErrorsOf(Tail(InputChars))

\* The step that emits the token pushes the one-character lexeme and leaves
\* the cursor; the next lexeme starts where the cursor is.
C5_Steps ==
    /\ pc = "dispatch" /\ C5_MismatchAt(start) =>
          /\ current' = start + 1
          /\ tokens' = Append(tokens,
                              TokenNew(TokenType(C5_SingleKind[source[start + 1]]),
                                       <<source[start + 1]>>, None, line))
    /\ pc = "loop" /\ ~is_at_end => start' = current /\ current' = current

C5_LookaheadDoesNotConsume ==
    /\ [](C5_AfterMatch /\ C5_WholeInput)
    /\ [][C5_Steps]_vars

\* "<" then "(" : the "(" is being scanned as a fresh lexeme at offset 1,
\* after the Less token.
C5_Witness ==
    /\ source = <<60, 40>>
    /\ pc = "match"
    /\ start = 1
    /\ current = 2
    /\ Len(tokens) = 1
    /\ tokens[1].token_type.tag = "Less"

(***************************************************************************)
(* C6.  An input that is one of the characters ( ) { } , . - + ; * alone   *)
(* scans to exactly two tokens, the matching single-character kind with    *)
(* that character as lexeme and then Eof, and no errors.                   *)
(***************************************************************************)
C6_Kind ==
    [c \in PunctChars |->
        CASE c = 40 -> "LeftParen"
          [] c = 41 -> "RightParen"
          [] c = 123 -> "LeftBrace"
          [] c = 125 -> "RightBrace"
          [] c = 44 -> "Comma"
          [] c = 46 -> "Dot"
          [] c = 45 -> "Minus"
          [] c = 43 -> "Plus"
          [] c = 59 -> "Semicolon"
          [] c = 42 -> "Star"]

C6_SingleCharacters ==
    \A c \in PunctChars :
        source = <<c>> =>
            /\ pc # "panicked"
            /\ ScannedOnce =>
                  /\ Len(tokens) = 2
                  /\ tokens[1].token_type = TokenType(C6_Kind[c])
                  /\ tokens[1].lexeme = <<c>>
                  /\ tokens[2].token_type = TokenType("Eof")
                  /\ tokens[2].lexeme = <<>>
                  /\ errors = None

\* The scan of "}" has returned.
C6_Witness == ScannedOnce /\ source = <<125>> /\ Len(tokens) = 2

(***************************************************************************)
(* C7.  Each newline in the input increments the scanner's line counter by *)
(* one and produces neither a token nor an error, so what follows the k-th *)
(* newline carries line k+1.                                               *)
(***************************************************************************)
C7_Newlines == {i \in 1..Len(InputChars) : InputChars[i] = 10}

C7_NewlineIncrementsLine ==
    ScannedOnce =>
        /\ line = 1 + Cardinality(C7_Newlines)
        /\ tokens[Len(tokens)].line = 1 + Cardinality(C7_Newlines)
        /\ \A k \in 1..Len(RecordedErrors) :
              RecordedErrors[k].message # "Unexpected character: \n"

\* What the code does with a newline: an error like any other unrecognized
\* character, and the line counter stays at 1 in every state.
C7_LineNeverChanges ==
    /\ line = 1
    /\ ScannedOnce =>
          Len(RecordedErrors) >= Cardinality(C7_Newlines)

(***************************************************************************)
(* C8.  has_errors() is false on a freshly constructed Scanner, before any *)
(* scan, and after scan_tokens it is true if and only if the scan met at   *)
(* least one unrecognized character.                                       *)
(*                                                                         *)
(* The unrecognized characters of the claim are those outside the          *)
(* recognized set, the newline apart: a newline is skipped and is no       *)
(* lexical error (C7).  A scan that stopped met every character up to the  *)
(* one it stopped in.                                                      *)
(***************************************************************************)
\* The number of characters the scan has met: those that begin at or before
\* byte offset `start`.
C8_MetCount ==
    Cardinality({n \in 1..Len(InputChars) :
                    Len(Utf8(SubSeq(InputChars, 1, n - 1))) <= start})

\* The characters the stopped scan met: all of them when the call returned,
\* those up to the character under the cursor when it panicked.
C8_MetChars ==
    IF pc = "panicked" THEN SubSeq(InputChars, 1, C8_MetCount) ELSE InputChars

C8_HasErrorsIffUnrecognized ==
    /\ calls = 0 /\ pc = "idle" => ~has_errors
    /\ ScanStopped =>
          (has_errors <=>
              \E i \in 1..Len(C8_MetChars) :
                  C8_MetChars[i] \notin RecognizedChars \cup {10})

\* What the code does: after a call that returned, has_errors is true exactly
\* when the input holds a character that selects no token arm of scan_token,
\* the newline included; a call that panicked has stored nothing.
C8_ReturnedCalls ==
    /\ calls = 0 => ~has_errors
    /\ pc = "idle" /\ calls >= 1 =>
          (has_errors <=>
              \E i \in 1..Len(InputChars) : InputChars[i] \notin RecognizedChars)

\* A returned scan of "(@": has_errors is true, with the one error.
C8_Witness ==
    /\ ScannedOnce
    /\ source = <<40, 64>>
    /\ has_errors
    /\ Len(RecordedErrors) = 1

\* A returned scan without unrecognized characters: has_errors is false.
C8_WitnessClean == ScannedOnce /\ source = <<40, 61>> /\ ~has_errors

\* The scan of "@" then a two-byte character met two unrecognized characters
\* and stopped with has_errors false.
C8_PanickedWithoutErrors ==
    /\ pc = "panicked"
    /\ source = <<64, 195, 169>>
    /\ C8_MetChars = <<64, 233>>
    /\ ~has_errors

\* The returned scan of a newline alone: has_errors is true.
C8_NewlineIsError == ScannedOnce /\ source = <<10>> /\ has_errors

(***************************************************************************)
(* C9.  Every token is rendered as one line "<KIND_NAME> <lexeme> null",   *)
(* with the upper-snake-case kind name and the exact matched text, and the *)
(* rendered output always ends with the line "EOF  null" (two spaces);     *)
(* the input "(+)" renders exactly "LEFT_PAREN ( null", "PLUS + null",     *)
(* "RIGHT_PAREN ) null", "EOF  null".                                      *)
(***************************************************************************)
C9_KindName ==
    [tag \in TokenTypes \ {"UnknownToken"} |->
        CASE tag = "LeftParen" -> "LEFT_PAREN"
          [] tag = "RightParen" -> "RIGHT_PAREN"
          [] tag = "LeftBrace" -> "LEFT_BRACE"
          [] tag = "RightBrace" -> "RIGHT_BRACE"
          [] tag = "Comma" -> "COMMA"
          [] tag = "Dot" -> "DOT"
          [] tag = "Minus" -> "MINUS"
          [] tag = "Plus" -> "PLUS"
          [] tag = "Semicolon" -> "SEMICOLON"
          [] tag = "Star" -> "STAR"
          [] tag = "Equal" -> "EQUAL"
          [] tag = "EqualEqual" -> "EQUAL_EQUAL"
          [] tag = "Bang" -> "BANG"
          [] tag = "BangEqual" -> "BANG_EQUAL"
          [] tag = "Less" -> "LESS"
          [] tag = "LessEqual" -> "LESS_EQUAL"
          [] tag = "Greater" -> "GREATER"
          [] tag = "GreaterEqual" -> "GREATER_EQUAL"
          [] tag = "Eof" -> "EOF"]

\* stdout holds what the Scanner's Display wrote (not what main printed).
C9_Displayed == exit_code = None /\ stdout # <<>>

C9_RenderedLines ==
    C9_Displayed =>
        /\ Len(stdout) <= Len(tokens)
        /\ \A i \in 1..Len(stdout) :
              stdout[i] = C9_KindName[tokens[i].token_type.tag] \o " "
                              \o CharsStr(Chars(tokens[i].lexeme)) \o " null"
        /\ stdout[Len(stdout)] = "EOF  null"
        /\ source = <<40, 43, 41>> /\ calls = 1 =>
              stdout = <<"LEFT_PAREN ( null", "PLUS + null",
                         "RIGHT_PAREN ) null", "EOF  null">>

\* A Display call that writes anything writes one line per token.
C9_EveryTokenRendered ==
    stdout' # stdout /\ exit_code' = None => Len(stdout') = Len(tokens')

C9_Rendering == []C9_RenderedLines /\ [][C9_EveryTokenRendered]_vars

\* The scanned "(+)" has been displayed.
C9_Witness ==
    /\ C9_Displayed
    /\ source = <<40, 43, 41>>
    /\ calls = 1
    /\ Len(stdout) = 4

(***************************************************************************)
(* C10.  The tokenize command exits with code 65 when the scan of the      *)
(* input recorded at least one lexical error and with code 0 when it       *)
(* recorded none; for the input "(!@)" it prints LEFT_PAREN, BANG,         *)
(* RIGHT_PAREN, EOF with no token line for "@", reports the one error      *)
(* "Unexpected character: @" at line 1, and exits 65.                      *)
(***************************************************************************)
\* The program ran its tokenize command and is over.
C10_TokenizeRan == pc = "exited" /\ file_contents # None

\* The characters the tokenize command was given: those of the file, none
\* when the file could not be read.
C10_InputChars == Chars(file_contents[1])

\* The input holds a character that is a lexical error (the newline, which
\* C7 says is none, left aside).
C10_InputHasLexicalError ==
    \E i \in 1..Len(C10_InputChars) :
        C10_InputChars[i] \notin RecognizedChars \cup {10}

C10_ExitCodeFollowsErrors ==
    C10_TokenizeRan =>
        /\ C10_InputHasLexicalError => exit_code = Some(65)
        /\ (\A i \in 1..Len(C10_InputChars) :
                C10_InputChars[i] \in RecognizedChars)
              => exit_code = Some(0)
        /\ file_contents = Some(<<40, 33, 64, 41>>) =>
              /\ stdout = <<"LEFT_PAREN ( null", "BANG ! null",
                            "RIGHT_PAREN ) null", "EOF  null">>
              /\ stderr = <<"[line 1] Error: Unexpected character: @">>

\* What main.rs does: it exits 0 whatever the input, prints one line per
\* character, and on "(!@)" prints "Unknown Token" lines for "!" and "@".
\* A file that cannot be read is reported on stderr and tokenized as the
\* empty input; a file that was read leaves stderr empty.
C10_MainAlwaysExitsZero ==
    pc = "exited" =>
        /\ exit_code = Some(0)
        /\ C10_TokenizeRan =>
              /\ Len(stdout) = Len(C10_InputChars) + 1
              /\ stderr \in {<<>>, <<"Failed to read file test.lox">>}
              /\ stderr # <<>> => stdout = <<"EOF  null">>
              /\ file_contents # Some(<<>>) => stderr = <<>>
        /\ file_contents = Some(<<40, 33, 64, 41>>) =>
              /\ stdout = <<"LEFT_PAREN ( null", "Unknown Token ! null",
                            "Unknown Token @ null", "RIGHT_PAREN ) null",
                            "EOF  null">>
              /\ stderr = <<>>

\* main ran on a file it could not read.
C10_ReadFailed ==
    /\ pc = "exited"
    /\ file_contents = Some(<<>>)
    /\ stderr = <<"Failed to read file test.lox">>
    /\ stdout = <<"EOF  null">>
    /\ exit_code = Some(0)

(***************************************************************************)
(* C11.  Scanning is deterministic: fresh Scanners over the same source,   *)
(* each scanned once, end with identical token sequences (kind, lexeme,    *)
(* literal, line) and identical error sequences (line, message).           *)
(*                                                                         *)
(* Stated as: whatever Scanner is constructed over a source, the tokens    *)
(* and errors its first scan ends with are the values of one function of   *)
(* the source alone, so any two of them are equal; and whether the scan    *)
(* returns at all depends on the source alone.                             *)
(***************************************************************************)
C11_ResultIsFunctionOfSource ==
    /\ ScannedOnce =>
          /\ ~ScanFresh(source).panicked
          /\ tokens = ScanFresh(source).tokens
          /\ errors = ScanFresh(source).errors
    /\ pc = "panicked" /\ calls = 0 =>
          /\ ScanFresh(source).panicked
          /\ tokens = ScanFresh(source).tokens

\* A returned scan of "!=@": a two-character token, Eof and one error.
C11_Witness ==
    /\ ScannedOnce
    /\ source = <<33, 61, 64>>
    /\ Len(tokens) = 2
    /\ Len(RecordedErrors) = 1

(***************************************************************************)
(* C12.  In every reachable state of the Scanner, from construction        *)
(* through every step of scan_tokens (after each advance and after each    *)
(* matches_next), 0 <= start <= current <= len(source).                    *)
(***************************************************************************)
C12_CursorsInBounds ==
    /\ 0 <= start
    /\ start <= current
    /\ current <= Len(source)

\* After a matches_next that consumed the last character of the input.
C12_Witness ==
    /\ pc = "dispatch"
    /\ current = start + 2
    /\ start > 0
    /\ current = Len(source)

\* After an advance, before the match.
C12_WitnessAfterAdvance ==
    pc = "match" /\ current = start + 1 /\ current = Len(source)

(***************************************************************************)
(* C13.  Every non-Eof token that scan_tokens appends has the lexeme       *)
(* source[start..current] of the moment it is appended and carries the     *)
(* scanner's line of that moment; the lexeme is never empty and never      *)
(* longer than two characters.                                             *)
(***************************************************************************)
\* A step that appends a non-Eof token appends just that one token, built
\* from the cursors and the line of the state it is taken in.
C13_AppendStep ==
    (/\ Len(tokens') > Len(tokens)
     /\ tokens'[Len(tokens')].token_type.tag # "Eof") =>
        /\ SliceOk(source, start, current)
        /\ tokens' = Append(tokens, tokens'[Len(tokens')])
        /\ tokens'[Len(tokens')].lexeme = Slice(source, start, current)
        /\ tokens'[Len(tokens')].line = line

C13_LexemeLengths ==
    \A k \in 1..Len(tokens) :
        tokens[k].token_type.tag # "Eof" =>
            /\ Len(tokens[k].lexeme) >= 1
            /\ Len(tokens[k].lexeme) <= 2
            /\ Len(Chars(tokens[k].lexeme)) = Len(tokens[k].lexeme)

C13_LexemeIsSlice == []C13_LexemeLengths /\ [][C13_AppendStep]_vars

\* A two-character token has just been appended, after a one-character one.
C13_Witness ==
    /\ pc = "loop"
    /\ calls = 0
    /\ Len(tokens) = 2
    /\ Len(tokens[1].lexeme) = 1
    /\ tokens[2].lexeme = Slice(source, start, current)
    /\ Len(tokens[2].lexeme) = 2

(***************************************************************************)
(* C14.  For an input with k unrecognized characters, consecutive or not,  *)
(* scan_tokens records exactly k errors, one per character, in the order   *)
(* of the characters in the source, and the recognized characters between  *)
(* and after them still produce their tokens in source order; errors never *)
(* suppress token output.                                                  *)
(***************************************************************************)
\* The unrecognized characters of the input, in source order.
C14_Unrecognized ==
    SelectSeq(InputChars, LAMBDA c : c \notin RecognizedChars)

RECURSIVE C14_SegmentTokens(_, _)
\* The tokens of the runs of recognized characters of cs, run after run (seg
\* is the run being collected), then Eof.
C14_SegmentTokens(cs, seg) ==
    IF cs = <<>> THEN TokensOf(seg)
    ELSE IF Head(cs) \in RecognizedChars
    THEN C14_SegmentTokens(Tail(cs), Append(seg, Head(cs)))
    ELSE Front(TokensOf(seg)) \o C14_SegmentTokens(Tail(cs), <<>>)

C14_OneErrorPerCharacter ==
    /\ ScanStopped =>
          /\ Len(RecordedErrors) = Len(C14_Unrecognized)
          /\ \A k \in 1..Len(RecordedErrors) :
                RecordedErrors[k] =
                    [line |-> line,
                     message |-> "Unexpected character: "
                                     \o CharStr(C14_Unrecognized[k])]
          /\ tokens = C14_SegmentTokens(InputChars, <<>>)
    /\ C9_Displayed /\ calls = 1 /\ pc = "idle" =>
          /\ Len(stderr) = Len(C14_Unrecognized)
          /\ Len(stdout) = Len(tokens)

\* The same statement on the inputs whose characters all take one byte.
C14_SingleByteInputs ==
    (\A i \in 1..Len(InputChars) : InputChars[i] < 128) =>
        C14_OneErrorPerCharacter

\* Two errors around a token, on a single-byte input.
C14_SingleByteWitness ==
    /\ ScannedOnce
    /\ source = <<64, 43, 10>>
    /\ Len(RecordedErrors) = 2
    /\ Len(tokens) = 2

(***************************************************************************)
(* C15.  scan_tokens terminates on every finite input: each iteration of   *)
(* the loop increases current by at least 1 and at most 2, so the loop     *)
(* runs at most len(source) times, and the final Eof is always appended.   *)
(***************************************************************************)
\* The iteration about to end has moved the cursor by one or by two.
C15_IterationAdvances ==
    pc = "dispatch" => current = start + 1 \/ current = start + 2

\* A scan that is over has appended the final Eof.
C15_EndsWithEof ==
    ScanStopped =>
        /\ Len(tokens) >= 1
        /\ tokens[Len(tokens)].token_type.tag = "Eof"

C15_TerminatesWithEof == C15_IterationAdvances /\ C15_EndsWithEof

\* Each iteration starts where the one before it ended, and the cursor never
\* moves back.
C15_Progress ==
    /\ []C15_IterationAdvances
    /\ [][/\ current' >= current
          /\ pc = "loop" /\ pc' = "scan_token" => start' = current]_vars

\* The scheduling of a running call: the next step of scan_tokens is taken.
FairSpec ==
    Spec /\ WF_vars(LoopTest \/ Advance \/ Match \/ Dispatch \/ Finish)

\* Under that scheduling a call that has started returns or panics, and on
\* an input of one-byte characters it returns.
C15_CallEnds ==
    /\ pc = "loop" ~> (pc = "idle" \/ pc = "panicked")
    /\ (pc = "loop" /\ \A i \in 1..Len(source) : source[i] < 128)
          ~> pc = "idle"

(***************************************************************************)
(* C16.  The token and error collections are append-only across any        *)
(* sequence of scan_tokens calls on one Scanner: a second call on a        *)
(* scanned instance leaves every token emitted before, every recorded      *)
(* error and the value of has_errors unchanged, and only appends one       *)
(* further Eof token.                                                      *)
(***************************************************************************)
\* No step removes or changes a token; once a call has returned, no step
\* changes self.errors.
C16_AppendOnlyStep ==
    /\ Len(tokens') >= Len(tokens)
    /\ SubSeq(tokens', 1, Len(tokens)) = tokens
    /\ calls >= 1 => errors' = errors

\* After n returned calls: what the first call left, and one Eof more for
\* each further call.
C16_AfterCalls ==
    pc = "idle" /\ calls >= 1 =>
        /\ tokens = ScanFresh(source).tokens
                        \o [i \in 1..(calls - 1) |-> EofToken(line)]
        /\ errors = ScanFresh(source).errors

C16_AppendOnly == []C16_AfterCalls /\ [][C16_AppendOnlyStep]_vars

\* A second call on the scanned "(@" has returned: the error is still there
\* and the tokens are LeftParen, Eof, Eof.
C16_Witness ==
    /\ pc = "idle"
    /\ calls = 2
    /\ source = <<40, 64>>
    /\ has_errors
    /\ Len(RecordedErrors) = 1
    /\ Len(tokens) = 3

(***************************************************************************)
(* C17.  On an input of single-byte characters the scan partitions the     *)
(* source: every position is consumed by exactly one non-Eof lexeme or by  *)
(* exactly one error, so the lexeme lengths of the non-Eof tokens and the  *)
(* number of errors add up to len(source), and no lexeme contains an       *)
(* unrecognized character.                                                 *)
(***************************************************************************)
RECURSIVE C17_Lexemes(_)
\* The lexemes of the tokens, one after the other (Eof's is empty).
C17_Lexemes(toks) ==
    IF toks = <<>> THEN <<>>
    ELSE Head(toks).lexeme \o C17_Lexemes(Tail(toks))

C17_SingleByteInput == \A i \in 1..Len(source) : source[i] < 128

C17_Partition ==
    C17_SingleByteInput =>
        \* between iterations of the first call: the source up to the cursor
        /\ pc = "loop" /\ calls = 0 =>
              /\ Len(C17_Lexemes(tokens)) + Len(local_errors) = current
              /\ C17_Lexemes(tokens) =
                     SelectSeq(SubSeq(source, 1, current),
                               LAMBDA b : b \in RecognizedChars)
        \* after it: the whole source
        /\ ScannedOnce =>
              /\ Len(C17_Lexemes(tokens)) + Len(RecordedErrors) = Len(source)
              /\ C17_Lexemes(tokens) =
                     SelectSeq(source, LAMBDA b : b \in RecognizedChars)
        /\ \A k \in 1..Len(tokens) :
              \A j \in 1..Len(tokens[k].lexeme) :
                  tokens[k].lexeme[j] \in RecognizedChars

\* "<=" after an unrecognized character, scanned: one error, one lexeme of
\* two characters, and Eof.
C17_Witness ==
    /\ ScannedOnce
    /\ source = <<64, 60, 61>>
    /\ Len(tokens) = 2
    /\ Len(tokens[1].lexeme) = 2
    /\ Len(RecordedErrors) = 1

(***************************************************************************)
(* C18.  Operator pairing is greedy, left to right: a run of n "=" scans   *)
(* as floor(n/2) EqualEqual tokens followed by (n mod 2) Equal tokens, and *)
(* "!", "<" or ">" followed by m >= 1 "=" scans as the combined            *)
(* two-character kind followed by the greedy scan of the other m-1 "=".    *)
(***************************************************************************)
\* Kind and lexeme of the tokens before the final Eof.
C18_Scanned ==
    [k \in 1..(Len(tokens) - 1) |->
        <<tokens[k].token_type.tag, tokens[k].lexeme>>]

\* The greedy scan of a run of n "=".
C18_RunTokens(n) ==
    [k \in 1..(n \div 2) |-> <<"EqualEqual", <<61, 61>>>>]
        \o (IF n % 2 = 1 THEN <<<<"Equal", <<61>>>>>> ELSE <<>>)

C18_GreedyPairing ==
    ScannedOnce =>
        /\ \A n \in 1..Len(source) :
              source = EqualRun(n) =>
                  /\ C18_Scanned = C18_RunTokens(n)
                  /\ errors = None
        /\ \A c \in {33, 60, 62} :
              \A m \in 1..(Len(source) - 1) :
                  source = <<c>> \o EqualRun(m) =>
                      /\ C18_Scanned =
                             <<<<C4_CombinedKind[c], <<c, 61>>>>>>
                                 \o C18_RunTokens(m - 1)
                      /\ errors = None

\* The run of five "=" has been scanned: three tokens and Eof.
C18_Witness ==
    /\ ScannedOnce
    /\ source = EqualRun(5)
    /\ Len(tokens) = 4

\* ">" and four "=" has been scanned: ">=", "==", "=" and Eof.
C18_WitnessAfterOperator ==
    /\ ScannedOnce
    /\ source = <<62>> \o EqualRun(4)
    /\ Len(tokens) = 4

====
